---------------------------- MODULE Spec2Model ----------------------------
(* Template.ipynb: ExampleEnvironment, value_iteration, QLearningAgent and *)
(* run_experiment.                                                         *)
(*                                                                         *)
(* Numbers.  A real value x of the notebook is the integer x * Scale, so   *)
(* one unit is 1/Scale.  A product with a ratio n/d (step size, discount,  *)
(* transition probability) is rounded down to a unit, which keeps what the *)
(* floating-point arithmetic of the code guarantees: the operations are    *)
(* monotone, and a ratio of 1 is exact.                                    *)
EXTENDS Integers, Sequences, FiniteSets

VARIABLES
    \* QLearningAgent
    q, prev_state, prev_action, discount, step_size, epsilon, delta,
    \* the agent's fields at entry to its last call, and that call's arguments and result
    pre, ret, agent_calls,
    \* ExampleEnvironment
    cur_loc, env_draws,
    \* the environment's fields at entry to its last call, and that call
    env_pre, env_ret, env_calls,
    \* run_experiment
    pc, has_converged, num_steps, init_state, init_action, next_state, next_reward,
    next_action,
    \* value_iteration
    vi_pc, vi_theta, vi_discount, vi_delta, s_vals, vi_s

agent_vars == <<q, prev_state, prev_action, discount, step_size, epsilon, delta,
                pre, ret, agent_calls>>
env_vars == <<cur_loc, env_draws, env_pre, env_ret, env_calls>>
run_vars == <<pc, has_converged, num_steps, init_state, init_action, next_state,
              next_reward, next_action>>
vi_vars == <<vi_pc, vi_theta, vi_discount, vi_delta, s_vals, vi_s>>
vars == <<agent_vars, env_vars, run_vars, vi_vars>>

---------------------------------------------------------------------------
(* Bounds of the model *)

\* units per 1.0
Scale == 20
\* seeds of the agent's generator: 0 .. MaxSeed
MaxSeed == 1
\* calls made on one agent
MaxAgentCalls == 3
\* calls made on one environment
MaxEnvCalls == 3
\* iterations of the loop of run_experiment
MaxSteps == 2

---------------------------------------------------------------------------
(* Python values and arithmetic *)

None == -1

Abs(x) == IF x < 0 THEN -x ELSE x

Max2(a, b) == IF b > a THEN b ELSE a

\* x * n / d rounded down, for d > 0, without forming x * n
MulRatio(x, n, d) == (x \div d) * n + ((x % d) * n) \div d

\* the element a Python list of length n holds at index i: -1 when i is out of range
PyIndex(i, n) ==
    IF i >= 0 /\ i < n THEN i
    ELSE IF i < 0 /\ i >= -n THEN n + i
    ELSE -1

---------------------------------------------------------------------------
(* ExampleEnvironment: the model *)

num_states == 4
num_actions == 3

grid == 0 .. (num_states - 1)
Actions == 0 .. (num_actions - 1)

\* self.rewards, in halves
rewards_halves == << <<0, 0, 4>>, <<0, 2, 0>>, <<2, 2, 0>>, <<4, 3, 6>> >>

rewards == [s \in grid |-> [a \in Actions |->
               (rewards_halves[s + 1][a + 1] * Scale) \div 2]]

\* self.tran_matrix, in quarters
TranDen == 4
tran_quarters == << <<2, 2, 0, 0>>, <<1, 1, 2, 0>>, <<0, 1, 1, 2>>, <<0, 0, 1, 3>> >>

tran_matrix == [s \in grid |-> [s2 \in grid |-> tran_quarters[s + 1][s2 + 1]]]


---------------------------------------------------------------------------
(* QLearningAgent *)

\* agent_info: discount, step_size and epsilon as ratios <<n, d>>, delta in units
AgentInfos ==
    { [discount |-> <<9, 10>>, step_size |-> <<1, 2>>, epsilon |-> <<1, 2>>, delta |-> 2],
      [discount |-> <<1, 2>>,  step_size |-> <<1, 1>>, epsilon |-> <<0, 1>>, delta |-> 1] }

\* the values a draw of uniform(0, 0.1) can take: the units below 0.1
QLevels == ((Scale - 1) \div 10) + 1

\* the k-th draw of a generator seeded with seed (a linear congruential sequence)
RECURSIVE rand_generator(_, _)
rand_generator(seed, k) ==
    IF k = 0 THEN (seed * 29 + 11) % 128
    ELSE (rand_generator(seed, k - 1) * 21 + 17) % 128

\* rand_generator.uniform(0, 0.1, (num_states, num_actions))
uniform_table(seed) ==
    [s \in grid |-> [a \in Actions |->
        (rand_generator(seed, s * num_actions + a + 1) \div 16) % QLevels]]

\* new_val = -1e8
NegSentinel == -100000000 * Scale

\* one visit of the loop of argmax: st is [has_top, top, ties], has_top = FALSE
\* standing for top = -inf
argmax_visit_no_reset(st, q_values, i) ==
    LET gt == (~st.has_top) \/ q_values[i] > st.top
        top1 == IF gt THEN q_values[i] ELSE st.top
    IN  [has_top |-> TRUE, top |-> top1,
         ties |-> IF q_values[i] = top1 THEN Append(st.ties, i) ELSE st.ties]

argmax_visit(st, q_values, i) ==
    LET gt == (~st.has_top) \/ q_values[i] > st.top
        top1 == IF gt THEN q_values[i] ELSE st.top
        ties1 == IF gt THEN <<>> ELSE st.ties
    IN  [has_top |-> TRUE, top |-> top1,
         ties |-> IF q_values[i] = top1 THEN Append(ties1, i) ELSE ties1]

RECURSIVE argmax_loop(_, _, _)
argmax_loop(st, q_values, i) ==
    IF i >= Cardinality(DOMAIN q_values) THEN st
    ELSE argmax_loop(argmax_visit(st, q_values, i), q_values, i + 1)

\* the list ties of argmax when the scan is over
argmax_ties(q_values) ==
    argmax_loop([has_top |-> FALSE, top |-> 0, ties |-> <<>>], q_values, 0).ties

Range(f) == {f[i] : i \in DOMAIN f}

\* the outcomes of rand_generator.rand() < self.epsilon
explore_draws(eps) ==
    (IF eps[1] > 0 THEN {TRUE} ELSE {}) \cup (IF eps[1] < eps[2] THEN {FALSE} ELSE {})

\* the epsilon-greedy choice of start and step: the actions it can return, each
\* with the branch taken and the ties of argmax
epsilon_greedy(current_q, eps) ==
    {[action |-> a, greedy |-> FALSE, ties |-> <<>>] :
        a \in IF TRUE \in explore_draws(eps) THEN Actions ELSE {}}
    \cup
    {[action |-> a, greedy |-> TRUE, ties |-> argmax_ties(current_q)] :
        a \in IF FALSE \in explore_draws(eps) THEN Range(argmax_ties(current_q)) ELSE {}}

\* val of step for one act
td_val(cur_val, reward, q_next, alpha, gamma) ==
    cur_val + MulRatio(reward + MulRatio(q_next, gamma[1], gamma[2]) - cur_val,
                       alpha[1], alpha[2])

\* the loop of step over act
RECURSIVE new_val_loop(_, _, _, _, _, _, _)
new_val_loop(new_val, act, cur_val, reward, q_state, alpha, gamma) ==
    IF act >= num_actions THEN new_val
    ELSE new_val_loop(Max2(new_val, td_val(cur_val, reward, q_state[act], alpha, gamma)),
                      act + 1, cur_val, reward, q_state, alpha, gamma)

\* self.q[self.prev_state, self.prev_action] = new_val
q_assign_row(qq, ps, pa, v) == [qq EXCEPT ![ps] = [a \in Actions |-> v]]

q_assign(qq, ps, pa, v) == [qq EXCEPT ![ps][pa] = v]

\* abs(new_val - cur_val) < self.delta
converged_flag_le(new_val, cur_val, d) == Abs(new_val - cur_val) <= d

converged_flag(new_val, cur_val, d) == Abs(new_val - cur_val) < d

NoCall == [op |-> "none", state |-> None, reward |-> 0, action |-> None,
           converged |-> FALSE, err |-> "none", greedy |-> FALSE, ties |-> <<>>]

AgentFields == [q |-> q, prev_state |-> prev_state, prev_action |-> prev_action]

\* QLearningAgent(agent_info) for the agent_info of infos and the seeds 0 .. MaxSeed
AgentInit(infos) ==
    /\ \E info \in infos :
        /\ discount = info.discount
        /\ step_size = info.step_size
        /\ epsilon = info.epsilon
        /\ delta = info.delta
    /\ \E seed \in 0 .. MaxSeed : q = uniform_table(seed)
    /\ prev_state = None
    /\ prev_action = None
    /\ pre = AgentFields
    /\ ret = NoCall
    /\ agent_calls = 0

AgentConfigUnchanged == UNCHANGED <<discount, step_size, epsilon, delta>>

AgentStart(state) ==
    /\ agent_calls' = agent_calls + 1
    /\ pre' = AgentFields
    /\ \E o \in epsilon_greedy(q[state], epsilon) :
        /\ prev_state' = state
        /\ prev_action' = o.action
        /\ ret' = [op |-> "start", state |-> state, reward |-> 0, action |-> o.action,
                   converged |-> FALSE, err |-> "none", greedy |-> o.greedy,
                   ties |-> o.ties]
    /\ UNCHANGED q
    /\ AgentConfigUnchanged

\* step with prev_state and prev_action set
AgentStepUpdate(state, reward) ==
    /\ prev_state # None
    /\ prev_action # None
    /\ agent_calls' = agent_calls + 1
    /\ pre' = AgentFields
    /\ \E o \in epsilon_greedy(q[state], epsilon) :
        LET cur_val == q[prev_state][prev_action]
            new_val == new_val_loop(NegSentinel, 0, cur_val, reward, q[state],
                                    step_size, discount)
        IN  /\ q' = q_assign(q, prev_state, prev_action, new_val)
            /\ ret' = [op |-> "step", state |-> state, reward |-> reward,
                       action |-> o.action,
                       converged |-> converged_flag(new_val, cur_val, delta),
                       err |-> "none", greedy |-> o.greedy, ties |-> o.ties]
    /\ UNCHANGED <<prev_state, prev_action>>
    /\ AgentConfigUnchanged

\* step with prev_state and prev_action None: self.q[None, None] is the whole
\* table with two axes added, val is an array, and max(new_val, val) raises
\* ValueError (the truth value of an array is ambiguous) before line 257
AgentStepRaise_returns(state, reward) ==
    /\ prev_state = None
    /\ prev_action = None
    /\ agent_calls' = agent_calls + 1
    /\ pre' = AgentFields
    /\ \E o \in epsilon_greedy(q[state], epsilon) :
        ret' = [op |-> "step", state |-> state, reward |-> reward, action |-> o.action,
                converged |-> FALSE, err |-> "none", greedy |-> o.greedy,
                ties |-> o.ties]
    /\ UNCHANGED <<q, prev_state, prev_action>>
    /\ AgentConfigUnchanged

AgentStepRaise(state, reward) ==
    /\ prev_state = None
    /\ prev_action = None
    /\ agent_calls' = agent_calls + 1
    /\ pre' = AgentFields
    /\ \E o \in epsilon_greedy(q[state], epsilon) :
        ret' = [op |-> "step", state |-> state, reward |-> reward, action |-> None,
                converged |-> FALSE, err |-> "ValueError", greedy |-> o.greedy,
                ties |-> o.ties]
    /\ UNCHANGED <<q, prev_state, prev_action>>
    /\ AgentConfigUnchanged

---------------------------------------------------------------------------
(* ExampleEnvironment: start and step *)

NoEnvCall == [op |-> "none", action |-> None, next_state |-> None, reward |-> 0,
              err |-> "none"]

EnvFields == [cur_loc |-> cur_loc, draws |-> env_draws]

\* ExampleEnvironment(env_info): env_draws counts the values drawn from
\* self.rand_generator
EnvInit ==
    /\ cur_loc = None
    /\ env_draws = 0
    /\ env_pre = EnvFields
    /\ env_ret = NoEnvCall
    /\ env_calls = 0

\* the values rand_generator.choice(self.grid, p = p) can return
choice_support_all(p) == {s2 \in grid : p[s2] >= 0}

choice_support(p) == {s2 \in grid : p[s2] > 0}

EnvStart ==
    /\ env_calls' = env_calls + 1
    /\ env_pre' = EnvFields
    /\ \E s \in grid :
        /\ cur_loc' = s
        /\ env_ret' = [op |-> "start", action |-> None, next_state |-> s, reward |-> 0,
                       err |-> "none"]
    /\ env_draws' = env_draws + 1

\* step when self.rewards[self.cur_loc][action] raises: cur_loc is None
\* (TypeError) or action is out of the range of the list (IndexError)
EnvStepRaise(action) ==
    /\ cur_loc = None \/ PyIndex(action, num_actions) = -1
    /\ env_calls' = env_calls + 1
    /\ env_pre' = EnvFields
    /\ env_ret' = [op |-> "step", action |-> action, next_state |-> None, reward |-> 0,
                   err |-> IF cur_loc = None THEN "TypeError" ELSE "IndexError"]
    /\ UNCHANGED <<cur_loc, env_draws>>

\* step when the lookup succeeds: a negative action counts from the end of the row
EnvStepMove(action) ==
    /\ cur_loc # None
    /\ PyIndex(action, num_actions) # -1
    /\ env_calls' = env_calls + 1
    /\ env_pre' = EnvFields
    /\ LET next_reward_ == rewards[cur_loc][PyIndex(action, num_actions)]
       IN  \E next_state_ \in choice_support(tran_matrix[cur_loc]) :
            /\ cur_loc' = next_state_
            /\ env_ret' = [op |-> "step", action |-> action, next_state |-> next_state_,
                           reward |-> next_reward_, err |-> "none"]
    /\ env_draws' = env_draws + 1

---------------------------------------------------------------------------
(* value_iteration *)

\* the arguments value_iteration is called with: theta in units, discount <<n, d>>
ViParams ==
    {[theta |-> th, discount |-> d] : th \in {1, 2}, d \in {<<9, 10>>, <<7, 10>>, <<1, 2>>}}

\* np.sum(env.tran_matrix[s] * (env.rewards[s][a] + discount * s_vals))
RECURSIVE sum_rhs(_, _, _, _, _)
sum_rhs(vals, s, a, gamma, s2) ==
    IF s2 >= num_states THEN 0
    ELSE tran_matrix[s][s2] * (rewards[s][a] + MulRatio(vals[s2], gamma[1], gamma[2]))
         + sum_rhs(vals, s, a, gamma, s2 + 1)

action_value(vals, s, a, gamma) == sum_rhs(vals, s, a, gamma, 0) \div TranDen

\* np.max(vals) over the actions a .. num_actions - 1
RECURSIVE max_action_value(_, _, _, _)
max_action_value(vals, s, a, gamma) ==
    IF a = num_actions - 1 THEN action_value(vals, s, a, gamma)
    ELSE Max2(action_value(vals, s, a, gamma), max_action_value(vals, s, a + 1, gamma))

\* while delta > theta
loop_continues_late(d, theta) == d > theta * 4

loop_continues(d, theta) == d > theta

ViInit(params) ==
    /\ \E p \in params :
        /\ vi_theta = p.theta
        /\ vi_discount = p.discount
        /\ vi_delta = p.theta * 10
    /\ s_vals = [s \in grid |-> 0]
    /\ vi_s = 0
    /\ vi_pc = "while"

\* the test of the while loop: another sweep, or return s_vals
ViWhile ==
    /\ vi_pc = "while"
    /\ IF loop_continues(vi_delta, vi_theta)
       THEN /\ vi_delta' = 0
            /\ vi_s' = 0
            /\ vi_pc' = "for"
       ELSE /\ vi_pc' = "return"
            /\ UNCHANGED <<vi_delta, vi_s>>
    /\ UNCHANGED <<vi_theta, vi_discount, s_vals>>

\* one pass of the body of for s in env.grid
ViFor ==
    /\ vi_pc = "for"
    /\ LET cur_val == s_vals[vi_s]
           new == max_action_value(s_vals, vi_s, 0, vi_discount)
       IN  /\ s_vals' = [s_vals EXCEPT ![vi_s] = new]
           /\ vi_delta' = Max2(vi_delta, Abs(cur_val - new))
    /\ IF vi_s = num_states - 1
       THEN vi_pc' = "while" /\ vi_s' = 0
       ELSE vi_pc' = "for" /\ vi_s' = vi_s + 1
    /\ UNCHANGED <<vi_theta, vi_discount>>

\* one more sweep of the for loop over the states s .. num_states - 1
RECURSIVE sweep_from(_, _, _)
sweep_from(vals, s, gamma) ==
    IF s >= num_states THEN vals
    ELSE sweep_from([vals EXCEPT ![s] = max_action_value(vals, s, 0, gamma)], s + 1, gamma)

\* value_iteration(theta, discount) as a function: the table it returns
RECURSIVE value_iteration(_, _, _, _)
value_iteration(vals, d, theta, gamma) ==
    IF ~loop_continues(d, theta) THEN vals
    ELSE LET nxt == sweep_from(vals, 0, gamma)
             RECURSIVE max_change(_)
             max_change(s) == IF s >= num_states THEN 0
                              ELSE Max2(max_change(s + 1), Abs(vals[s] - nxt[s]))
         IN  value_iteration(nxt, max_change(0), theta, gamma)

---------------------------------------------------------------------------
(* run_experiment *)

\* the agent_info of the notebook's run, delta being the smallest unit
ReferenceAgentInfo ==
    [discount |-> <<9, 10>>, step_size |-> <<1, 2>>, epsilon |-> <<1, 2>>, delta |-> 1]

RunInit ==
    /\ pc = "env_start"
    /\ has_converged = FALSE
    /\ num_steps = 0
    /\ init_state = None
    /\ init_action = None
    /\ next_state = None
    /\ next_reward = 0
    /\ next_action = None

\* init_state = env.start()
RunEnvStart ==
    /\ pc = "env_start"
    /\ EnvStart
    /\ init_state' = cur_loc'
    /\ pc' = "agent_start"
    /\ UNCHANGED <<has_converged, num_steps, init_action, next_state, next_reward,
                   next_action>>
    /\ UNCHANGED <<agent_vars, vi_vars>>

\* init_action = agent.start(init_state)
RunAgentStart ==
    /\ pc = "agent_start"
    /\ AgentStart(init_state)
    /\ init_action' = ret'.action
    /\ pc' = "env_step_init"
    /\ UNCHANGED <<has_converged, num_steps, init_state, next_state, next_reward,
                   next_action>>
    /\ UNCHANGED <<env_vars, vi_vars>>

\* next_state, next_reward = env.step(init_action)
RunEnvStepInit ==
    /\ pc = "env_step_init"
    /\ EnvStepMove(init_action)
    /\ next_state' = env_ret'.next_state
    /\ next_reward' = env_ret'.reward
    /\ pc' = "while"
    /\ UNCHANGED <<has_converged, num_steps, init_state, init_action, next_action>>
    /\ UNCHANGED <<agent_vars, vi_vars>>

\* next_action, has_converged = agent.step(next_state, next_reward)
RunAgentStep ==
    /\ pc = "while"
    /\ ~has_converged
    /\ num_steps < MaxSteps
    /\ AgentStepUpdate(next_state, next_reward)
    /\ next_action' = ret'.action
    /\ has_converged' = ret'.converged
    /\ pc' = "env_step"
    /\ UNCHANGED <<num_steps, init_state, init_action, next_state, next_reward>>
    /\ UNCHANGED <<env_vars, vi_vars>>

\* next_state, next_reward = env.step(next_action); num_steps += 1
RunEnvStep ==
    /\ pc = "env_step"
    /\ EnvStepMove(next_action)
    /\ next_state' = env_ret'.next_state
    /\ next_reward' = env_ret'.reward
    /\ num_steps' = num_steps + 1
    /\ pc' = "while"
    /\ UNCHANGED <<has_converged, init_state, init_action, next_action>>
    /\ UNCHANGED <<agent_vars, vi_vars>>

\* the loop is left: return agent.q
RunReturn ==
    /\ pc = "while"
    /\ has_converged
    /\ pc' = "return"
    /\ UNCHANGED <<has_converged, num_steps, init_state, init_action, next_state,
                   next_reward, next_action>>
    /\ UNCHANGED <<agent_vars, env_vars, vi_vars>>

---------------------------------------------------------------------------
(* Specifications *)

ViIdle ==
    /\ vi_pc = "idle"
    /\ vi_theta = 0
    /\ vi_discount = <<0, 1>>
    /\ vi_delta = 0
    /\ s_vals = [s \in grid |-> 0]
    /\ vi_s = 0

RunIdle ==
    /\ pc = "idle"
    /\ has_converged = FALSE
    /\ num_steps = 0
    /\ init_state = None
    /\ init_action = None
    /\ next_state = None
    /\ next_reward = 0
    /\ next_action = None

\* run_experiment(env_info, agent_info)
Init == AgentInit(AgentInfos \cup {ReferenceAgentInfo}) /\ EnvInit /\ RunInit /\ ViIdle

Next ==
    \/ RunEnvStart
    \/ RunAgentStart
    \/ RunEnvStepInit
    \/ RunAgentStep
    \/ RunEnvStep
    \/ RunReturn

Spec == Init /\ [][Next]_vars

\* the rewards a caller passes to step: rewards of the environment and, while
\* no entry of the table is below zero, one below -1e8 (the sum of two values
\* near -1e8 * Scale does not fit 32 bits)
RewardInputs(qq) ==
    {0, Scale}
    \cup (IF \A s \in grid, a \in Actions : qq[s][a] >= 0
          THEN {NegSentinel - 5 * Scale} ELSE {})

\* a QLearningAgent called by any caller
InitAgent == AgentInit(AgentInfos) /\ EnvInit /\ RunIdle /\ ViIdle

CallAgentStart ==
    /\ agent_calls < MaxAgentCalls
    /\ \E state \in grid : AgentStart(state)
    /\ UNCHANGED <<env_vars, run_vars, vi_vars>>

CallAgentStepUpdate ==
    /\ agent_calls < MaxAgentCalls
    /\ \E state \in grid, reward \in RewardInputs(q) : AgentStepUpdate(state, reward)
    /\ UNCHANGED <<env_vars, run_vars, vi_vars>>

CallAgentStepRaise ==
    /\ agent_calls < MaxAgentCalls
    /\ \E state \in grid, reward \in RewardInputs(q) : AgentStepRaise(state, reward)
    /\ UNCHANGED <<env_vars, run_vars, vi_vars>>

NextAgent ==
    \/ CallAgentStart
    \/ CallAgentStepUpdate
    \/ CallAgentStepRaise

SpecAgent == InitAgent /\ [][NextAgent]_vars

\* the actions a caller passes to step
ActionInputs == (-(num_actions + 1)) .. (num_actions + 2)

\* an ExampleEnvironment called by any caller
InitEnv == AgentInit({ReferenceAgentInfo}) /\ q = uniform_table(0) /\ EnvInit
           /\ RunIdle /\ ViIdle

CallEnvStart ==
    /\ env_calls < MaxEnvCalls
    /\ EnvStart
    /\ UNCHANGED <<agent_vars, run_vars, vi_vars>>

CallEnvStepRaise ==
    /\ env_calls < MaxEnvCalls
    /\ \E action \in ActionInputs : EnvStepRaise(action)
    /\ UNCHANGED <<agent_vars, run_vars, vi_vars>>

CallEnvStepMove ==
    /\ env_calls < MaxEnvCalls
    /\ \E action \in ActionInputs : EnvStepMove(action)
    /\ UNCHANGED <<agent_vars, run_vars, vi_vars>>

NextEnv ==
    \/ CallEnvStart
    \/ CallEnvStepRaise
    \/ CallEnvStepMove

SpecEnv == InitEnv /\ [][NextEnv]_vars

\* value_iteration(theta, discount)
InitVi == AgentInit({ReferenceAgentInfo}) /\ q = uniform_table(0) /\ EnvInit
          /\ RunIdle /\ ViInit(ViParams)

ViWhileStep == ViWhile /\ UNCHANGED <<agent_vars, env_vars, run_vars>>

ViForStep == ViFor /\ UNCHANGED <<agent_vars, env_vars, run_vars>>

NextVi ==
    \/ ViWhileStep
    \/ ViForStep

SpecVi == InitVi /\ [][NextVi]_vars

---------------------------------------------------------------------------
(* Properties *)

\* the largest value of a row, and the indices that hold it
MaxOf(row) == CHOOSE v \in Range(row) : \A w \in Range(row) : v >= w

MaxIdx(row) == {i \in DOMAIN row : row[i] = MaxOf(row)}

StepReturned == ret.op = "step" /\ ret.err = "none"

\* C1: after a step that returns action a, the memory is (prev_state,
\* prev_action) = (state, a), the state passed to and the action returned by
\* that call.
C1_StepRecordsMemory ==
    StepReturned => (prev_state = ret.state /\ prev_action = ret.action)

\* the update rule of the specification, from the table at entry to the call
TargetOfRule ==
    LET cur == pre.q[pre.prev_state][pre.prev_action]
    IN  cur + MulRatio(ret.reward
                         + MulRatio(MaxOf(pre.q[ret.state]), discount[1], discount[2])
                         - cur,
                       step_size[1], step_size[2])

\* C2: step writes into Q[prevState, prevAction] exactly
\* cur + alpha * (reward + gamma * max over a' of Q[state, a'] - cur), for every
\* table, state and reward.
C2_UpdateRule ==
    StepReturned => q[pre.prev_state][pre.prev_action] = TargetOfRule

\* the table value_iteration returns for the agent's discount and the smallest theta
ViTable == value_iteration([s \in grid |-> 0], 10, 1, discount)

\* the actions that maximise R(s, a) + discount * sum over s' of P(s'|s) V(s')
ViGreedy(s) ==
    {a \in Actions : \A b \in Actions :
        action_value(ViTable, s, a, discount) >= action_value(ViTable, s, b, discount)}

\* C3: when run_experiment leaves its loop, the greedy policy of the Q-table
\* equals, up to ties, the greedy policy of the value-iteration solution: in
\* every state some greedy action of the table is greedy for value iteration.
C3_GreedyPolicyMatches ==
    pc = "return" => \A s \in grid : MaxIdx(q[s]) \cap ViGreedy(s) # {}

\* C4: the tie set of argmax is exactly the set of indices holding the maximum,
\* each once and in index order; a greedy choice returns a member of it, and
\* every member is a possible result.
C4_ArgmaxTieSet ==
    /\ \A s \in grid :
        LET ties == argmax_ties(q[s])
        IN  /\ Range(ties) = MaxIdx(q[s])
            /\ Len(ties) = Cardinality(MaxIdx(q[s]))
            /\ \A i \in 1 .. (Len(ties) - 1) : ties[i] < ties[i + 1]
            /\ {o.action : o \in epsilon_greedy(q[s], <<0, 1>>)} = MaxIdx(q[s])
    /\ ret.greedy =>
        /\ Range(ret.ties) = MaxIdx(pre.q[ret.state])
        /\ Len(ret.ties) = Cardinality(MaxIdx(pre.q[ret.state]))
        /\ ret.err = "none" => ret.action \in MaxIdx(pre.q[ret.state])

\* two actions tied at the maximum, below them a third, and the second of the
\* two returned
C4_Witness ==
    /\ ret.op = "start"
    /\ ret.greedy
    /\ Len(ret.ties) = 2
    /\ ret.action = ret.ties[2]
    /\ \E a \in Actions : pre.q[ret.state][a] < pre.q[ret.state][ret.action]

\* C5: step on an agent that start was never called on fails: it returns no
\* (action, converged) pair and leaves every entry of the Q-table unchanged.
C5_StepBeforeStartFails ==
    (ret.op = "step" /\ (pre.prev_state = None \/ pre.prev_action = None)) =>
        /\ ret.err # "none"
        /\ ret.action = None
        /\ ~ret.converged
        /\ q = pre.q

C5_Witness ==
    /\ ret.op = "step"
    /\ pre.prev_state = None
    /\ ret.err = "ValueError"
    /\ agent_calls = 1

\* C6: step(action) with an action outside 0 .. numActions - 1, after start,
\* fails: no (next_state, reward) pair, the current state unchanged, the
\* generator not advanced.
C6_InvalidActionFails ==
    (env_ret.op = "step" /\ env_pre.cur_loc # None /\ env_ret.action \notin Actions) =>
        /\ env_ret.err # "none"
        /\ env_ret.next_state = None
        /\ cur_loc = env_pre.cur_loc
        /\ env_draws = env_pre.draws

\* one sweep that reads the table of the sweep before only
sweep_sync(vals, gamma) == [s \in grid |-> max_action_value(vals, s, 0, gamma)]

\* C7: one more full sweep over the table value_iteration returns changes no
\* state's value by more than theta (the sweep in place, as the code makes it,
\* and the sweep that reads the returned table only).
C7_ApproximateFixedPoint ==
    vi_pc = "return" =>
        \A s \in grid :
            /\ Abs(sweep_from(s_vals, 0, vi_discount)[s] - s_vals[s]) <= vi_theta
            /\ Abs(sweep_sync(s_vals, vi_discount)[s] - s_vals[s]) <= vi_theta

\* a returned table that one more sweep still changes
C7_Witness ==
    /\ vi_pc = "return"
    /\ vi_delta <= vi_theta
    /\ \E s \in grid : sweep_from(s_vals, 0, vi_discount)[s] # s_vals[s]

\* C8: start changes no entry of the Q-table; step changes at most the entry
\* Q[prevState, prevAction] and leaves every other entry as it was; nothing
\* else changes the table.
C8_OnlyTheUpdatedEntry ==
    /\ \A s \in grid, a \in Actions :
        q[s][a] # pre.q[s][a] =>
            (ret.op = "step" /\ s = pre.prev_state /\ a = pre.prev_action)
    /\ ret.op \in {"start", "none"} => q = pre.q

\* a step that changed its entry, in a row with an entry of another value
C8_Witness ==
    /\ StepReturned
    /\ q[pre.prev_state][pre.prev_action] # pre.q[pre.prev_state][pre.prev_action]
    /\ \E a \in Actions : q[pre.prev_state][a] # q[pre.prev_state][pre.prev_action]

\* the change step made to its entry
EntryChange ==
    Abs(q[pre.prev_state][pre.prev_action] - pre.q[pre.prev_state][pre.prev_action])

\* C9: the flag step returns is true iff |newValue - cur| < delta for the entry
\* Q[prevState, prevAction] before and after the call; a change equal to delta
\* gives false.
C9_ConvergedFlag ==
    StepReturned => (ret.converged <=> EntryChange < delta)

C9_Witness ==
    /\ StepReturned
    /\ EntryChange = delta
    /\ ~ret.converged

\* C10: for a started environment in state s and a valid action a, step
\* returns rewards[s][a] of the state held before the call and a next state s'
\* with tran_matrix[s][s'] > 0, and makes s' the current state; the next states
\* that can follow are the same for every action; the current state stays in
\* 0 .. 3 and state 3 is never reached in one step from state 0.
C10_EnvStep ==
    /\ (env_ret.op = "step" /\ env_ret.err = "none" /\ env_ret.action \in Actions) =>
        /\ env_ret.reward = rewards[env_pre.cur_loc][env_ret.action]
        /\ tran_matrix[env_pre.cur_loc][env_ret.next_state] > 0
        /\ cur_loc = env_ret.next_state
        /\ ~(env_pre.cur_loc = 0 /\ cur_loc = 3)
    /\ (env_ret.op = "start" \/ env_pre.cur_loc # None) => cur_loc \in grid
    /\ cur_loc # None =>
        \A a \in Actions, s2 \in grid :
            (ENABLED (EnvStepMove(a) /\ cur_loc' = s2)) <=> tran_matrix[cur_loc][s2] > 0

\* a step from state 3 to state 2 whose reward is that of state 3
C10_Witness ==
    /\ env_ret.op = "step"
    /\ env_ret.err = "none"
    /\ env_pre.cur_loc = 3
    /\ cur_loc = 2
    /\ env_ret.action = 1
    /\ env_ret.reward = rewards[3][1]
    /\ env_ret.reward # rewards[2][1]

===========================================================================
